---- MODULE Spec2Model ----
(***************************************************************************)
(* Model of src/syscall/js/callback.go: the registry of Go callbacks, the   *)
(* JavaScript trampolines that queue invocations, and the callbackLoop      *)
(* goroutine that drains the queue.                                         *)
(***************************************************************************)
EXTENDS Integers, Sequences, FiniteSets, TLC

\* ---------------------------------------------------------------- bounds
NumCallers == 2
MaxRegister == 2
MaxInvoke == 3
MaxClose == 2
MaxArgs == 1
\* the runs that register event callbacks with every flag combination, and the
\* runs checked for progress, are shorter
FewRegister == 1
FewInvoke == 2
FewClose == 1
\* the longest argument list in the runs that look at the arguments delivered
ManyArgs == 3

\* ------------------------------------------------------ program constants
PreventDefault == 1
StopPropagation == 2
StopImmediatePropagation == 4

\* uint32 values are kept as two 16-bit halves <<hi, lo>>, so that the
\* increment wraps at 2^32 exactly as the program's does.
Half == 65536

Zero == <<0, 0>>
One == <<0, 1>>
MaxU32 == <<Half - 1, Half - 1>>

U32Inc(x) ==
  IF x[2] = Half - 1 THEN <<(x[1] + 1) % Half, 0>> ELSE <<x[1], x[2] + 1>>

U32Less(a, b) == a[1] < b[1] \/ (a[1] = b[1] /\ a[2] < b[2])

U32Leq(a, b) == a = b \/ U32Less(a, b)

\* ----------------------------------------------------------------- values
NumVal(n) == <<"num", n>>
EventVal(e) == <<"event", e>>

\* the argument lists a host passes to a plain trampoline
ArgInputs == {[i \in 1..n |-> NumVal(i)] : n \in 1..MaxArgs}

\* argument lists of every length from none to ManyArgs
ArgShapes == {[i \in 1..n |-> NumVal(i)] : n \in 0..ManyArgs}

\* the flags a caller passes to NewEventCallback
FlagInputs == 0..(PreventDefault + StopPropagation + StopImmediatePropagation)

\* what a caller registers: a plain callback, or an event callback with flags
RegInputs(flagSet) == {<<"plain", 0>>} \cup {<<"event", fl>> : fl \in flagSet}

Callers == 1..NumCallers
\* the callbackLoop goroutine, when a callback body running on it calls
\* NewCallback or Close
Dispatcher == NumCallers + 1
Threads == Callers \cup {Dispatcher}

\* the holders of callbacksMu
Free == <<"free">>
Loop == <<"loop">>
Thread(t) == <<"thread", t>>

\* What the callers and the host do in a run: how many NewCallback and
\* NewEventCallback calls, trampoline invocations and Close calls, with which
\* inputs, from which callers.
MainEnv ==
  [maxRegister |-> MaxRegister, maxInvoke |-> MaxInvoke, maxClose |-> MaxClose,
   regInputs |-> RegInputs({PreventDefault + StopImmediatePropagation}),
   argInputs |-> ArgInputs, callers |-> Callers]

EventEnv ==
  [maxRegister |-> FewRegister, maxInvoke |-> FewInvoke, maxClose |-> FewClose,
   regInputs |-> RegInputs(FlagInputs),
   argInputs |-> ArgInputs, callers |-> {1}]

SmallEnv ==
  [maxRegister |-> FewRegister + 1, maxInvoke |-> FewInvoke, maxClose |-> FewClose,
   regInputs |-> RegInputs({PreventDefault + StopImmediatePropagation}),
   argInputs |-> ArgInputs, callers |-> Callers]

ArgsEnv ==
  [maxRegister |-> FewRegister + 1, maxInvoke |-> FewInvoke, maxClose |-> FewClose,
   regInputs |-> RegInputs({PreventDefault + StopImmediatePropagation}),
   argInputs |-> ArgShapes, callers |-> {1}]

\* Callback{id, enqueueFn}: enqueueFn is the plain helper, or the event helper
\* with its three booleans
MkCallback(id, kind, pd, sp, sip) ==
  [id |-> id, kind |-> kind, pd |-> pd, sp |-> sp, sip |-> sip]

ZeroCallback == MkCallback(Zero, "plain", FALSE, FALSE, FALSE)

\* the Callback of the first NewCallback of a process, when it was a plain one
FirstCallback == MkCallback(One, "plain", FALSE, FALSE, FALSE)

NoRecord == [id |-> Zero, args |-> <<>>, seq |-> 0, pushRel |-> FALSE]
NoFn == [name |-> 0, wrap |-> FALSE]
Idle == [kind |-> "plain", flags |-> 0, fn |-> NoFn, id |-> Zero]

VARIABLES
  pendingCallbacks,   \* the JavaScript array of {id, args}
  callbacksMu,        \* who holds the mutex: Free, Thread(t) or Loop
  callbacks,          \* map[uint32]func([]Value)
  nextCallbackID,     \* uint32
  callbackLoopOnce,   \* sync.Once: TRUE once Do has run its function
  signal,             \* the callback promise has been resolved
  tpc, tloc,          \* each thread's position in NewCallback/Close, and locals
  made,               \* the Callback values returned so far
  dpc, cb, f, ok,     \* callbackLoop: position and locals
  events,             \* per event object: the operations applied to it, in order
  loops,              \* number of callbackLoop goroutines started
  nreg, ninv, nclose, \* operations started so far
  slept,              \* sleepUntilCallback has returned since the last record was settled
  returned,           \* ids returned by NewCallback, in order
  removed,            \* ids that the delete of a Close took out of callbacks
  released,           \* the ids of removed whose Close has returned
  prior,              \* every id in 1..prior was returned and closed earlier
  popRel, rel,        \* was cb.id removed when cb was shifted / looked up
  pushed,             \* the id of each record appended, in order
  given,              \* each trampoline invocation: which trampoline, which arguments
  allocated,          \* each callbacks[id] = fn, in order: id, fn, the Callback to return
  calls,              \* invocations of registered functions, in order
  diag                \* console.error calls, in order

vars ==
  <<pendingCallbacks, callbacksMu, callbacks, nextCallbackID, callbackLoopOnce,
    signal, tpc, tloc, made, dpc, cb, f, ok, events, loops, nreg, ninv, nclose,
    slept, returned, removed, released, prior, popRel, rel, pushed, given,
    allocated, calls, diag>>

hostVars == <<pendingCallbacks, signal, events, ninv, pushed, given>>
regVars == <<callbacks, nextCallbackID>>
dispVars == <<dpc, cb, f, ok, popRel, rel, calls, diag, slept>>
histVars == <<returned, removed, released, prior, allocated>>

\* ------------------------------------------------------------------ Init
Init ==
  /\ pendingCallbacks = <<>>
  /\ callbacksMu = Free
  /\ callbacks = <<>>
  /\ nextCallbackID = One
  /\ callbackLoopOnce = FALSE
  /\ signal = FALSE
  /\ tpc = [t \in Threads |-> "idle"]
  /\ tloc = [t \in Threads |-> Idle]
  /\ made = {}
  /\ dpc = "unstarted"
  /\ cb = NoRecord
  /\ f = NoFn
  /\ ok = FALSE
  /\ events = <<>>
  /\ loops = 0
  /\ nreg = 0
  /\ ninv = 0
  /\ nclose = 0
  /\ slept = FALSE
  /\ returned = <<>>
  /\ removed = {}
  /\ released = {}
  /\ prior = Zero
  /\ popRel = FALSE
  /\ rel = FALSE
  /\ pushed = <<>>
  /\ given = <<>>
  /\ allocated = <<>>
  /\ calls = <<>>
  /\ diag = <<>>

\* id was returned, and closed, before the run's first state
InPrior(id) == U32Leq(One, id) /\ U32Leq(id, prior)

\* a Close has removed id from callbacks
WasRemoved(id) == id \in removed \/ InPrior(id)

\* a Close that removed id has returned
WasReleased(id) == id \in released \/ InPrior(id)

\* ------------------------------------------------------- pure operations
\* flags&bit != 0, for a single-bit constant
HasFlag(flags, bit) == (flags \div bit) % 2 = 1

\* delete(m, k)
MapDeleteKeepsKey(m, k) == m

MapDeleteAbsentClears(m, k) ==
  IF k \in DOMAIN m THEN [x \in DOMAIN m \ {k} |-> m[x]] ELSE <<>>

MapDelete(m, k) == [x \in DOMAIN m \ {k} |-> m[x]]

\* a store that drops the other entries of the map
MapStoreAlone(m, k, v) == (k :> v)

\* m[k] = v
MapStore(m, k, v) == (k :> v) @@ m

\* f, ok := m[k]
MapLookupAlwaysFound(m, k) ==
  [f |-> IF k \in DOMAIN m THEN m[k] ELSE [name |-> 1, wrap |-> FALSE], ok |-> TRUE]

MapLookup(m, k) ==
  IF k \in DOMAIN m THEN [f |-> m[k], ok |-> TRUE] ELSE [f |-> NoFn, ok |-> FALSE]

\* sync.Once.Do runs its function only on the first call
OnceRunsEveryTime(done) == TRUE

OnceShouldRun(done) == ~done

\* sync.Mutex.Lock can proceed only while nobody holds the mutex
MutexAlwaysFree(mu) == TRUE

MutexFree(mu) == mu = Free

\* the copy of the JavaScript arguments object into a Go slice
MakeArgsReversed(argsObj) ==
  [i \in 1..Len(argsObj) |-> argsObj[Len(argsObj) + 1 - i]]

MakeArgs(argsObj) == [i \in 1..Len(argsObj) |-> argsObj[i]]

\* pendingCallbacks.shift(): the front of the array, and the rest
ShiftKeepsFront(q) == [rec |-> Head(q), rest |-> q]

ShiftTakesLast(q) == [rec |-> q[Len(q)], rest |-> SubSeq(q, 1, Len(q) - 1)]

Shift(q) == [rec |-> Head(q), rest |-> Tail(q)]

\* a helper that resolves the promise without queuing a record
CallbackHelperNoPush(hs, id, args, seq, pushRel) == [hs EXCEPT !.sig = TRUE]

\* the function the helper made by makeCallbackHelper runs: one host state in,
\* one out (hs.q the array, hs.sig the promise, hs.log the event's log)
CallbackHelperNoResolve(hs, id, args, seq, pushRel) ==
  [hs EXCEPT !.q = Append(@, [id |-> id, args |-> args, seq |-> seq, pushRel |-> pushRel])]

CallbackHelper(hs, id, args, seq, pushRel) ==
  [hs EXCEPT
     !.q = Append(@, [id |-> id, args |-> args, seq |-> seq, pushRel |-> pushRel]),
     !.sig = TRUE]

\* the statements the helper made by makeEventCallbackHelper runs, in order
EventHelperOpsQueueFirst(pd, sp, sip) ==
  <<"fn">>
  \o (IF pd THEN <<"preventDefault">> ELSE <<>>)
  \o (IF sp THEN <<"stopPropagation">> ELSE <<>>)
  \o (IF sip THEN <<"stopImmediatePropagation">> ELSE <<>>)

EventHelperOpsIgnoreStop(pd, sp, sip) ==
  (IF pd THEN <<"preventDefault">> ELSE <<>>)
  \o (IF sip THEN <<"stopImmediatePropagation">> ELSE <<>>)
  \o <<"fn">>

EventHelperOps(pd, sp, sip) ==
  (IF pd THEN <<"preventDefault">> ELSE <<>>)
  \o (IF sp THEN <<"stopPropagation">> ELSE <<>>)
  \o (IF sip THEN <<"stopImmediatePropagation">> ELSE <<>>)
  \o <<"fn">>

\* one statement of the event helper applied to the host state
EventHelperStep(hs, op, id, ev, seq, pushRel) ==
  IF op = "fn"
  THEN [CallbackHelper(hs, id, <<ev>>, seq, pushRel) EXCEPT !.log = Append(@, "fn")]
  ELSE [hs EXCEPT !.log = Append(@, op)]

RECURSIVE EventHelperRun(_, _, _, _, _, _)
EventHelperRun(hs, ops, id, ev, seq, pushRel) ==
  IF ops = <<>> THEN hs
  ELSE EventHelperRun(EventHelperStep(hs, Head(ops), id, ev, seq, pushRel),
                      Tail(ops), id, ev, seq, pushRel)

\* the Callback that NewCallback (kind "plain") or NewEventCallback (kind
\* "event", with the event helper made from the flags) returns for id
NewCallbackResult(kind, flags, id) ==
  IF kind = "event"
  THEN MkCallback(id, "event",
                  HasFlag(flags, PreventDefault),
                  HasFlag(flags, StopPropagation),
                  HasFlag(flags, StopImmediatePropagation))
  ELSE MkCallback(id, "plain", FALSE, FALSE, FALSE)

\* ------------------------------------------------- NewCallback and Close
\* a caller, or a callback body running on the callbackLoop goroutine
\* (callers are interchangeable: the idle caller of lowest number starts)
CanStart(t, env) ==
  /\ tpc[t] = "idle"
  /\ t \in env.callers \cup {Dispatcher}
  /\ t = Dispatcher => dpc = "body"
  /\ t \in Callers => \A u \in Callers : u < t => tpc[u] # "idle"

\* NewCallback(fn) is entered (kind = "plain"), or NewEventCallback(flags, fn)
\* is entered and calls NewCallback with its wrapper (kind = "event");
\* callbackLoopOnce.Do(func() { go callbackLoop() })
NewCallbackBegin(t, env) ==
  /\ CanStart(t, env)
  /\ nreg < env.maxRegister
  /\ \E in \in env.regInputs :
       tloc' = [tloc EXCEPT ![t] =
         [kind |-> in[1], flags |-> in[2],
          fn |-> [name |-> nreg + 1, wrap |-> in[1] = "event"], id |-> Zero]]
  /\ IF OnceShouldRun(callbackLoopOnce)
     THEN /\ callbackLoopOnce' = TRUE
          /\ loops' = loops + 1
          /\ dpc' = IF dpc = "unstarted" THEN "sleep" ELSE dpc
     ELSE UNCHANGED <<callbackLoopOnce, loops, dpc>>
  /\ tpc' = [tpc EXCEPT ![t] = "lock"]
  /\ nreg' = nreg + 1
  /\ UNCHANGED <<hostVars, regVars, histVars, callbacksMu, made, cb, f, ok,
                 popRel, rel, calls, diag, slept, nclose>>

\* callbacksMu.Lock()
RegLock(t) ==
  /\ tpc[t] = "lock"
  /\ MutexFree(callbacksMu)
  /\ callbacksMu' = Thread(t)
  /\ tpc' = [tpc EXCEPT ![t] = "read"]
  /\ UNCHANGED <<hostVars, regVars, dispVars, histVars, callbackLoopOnce, tloc,
                 made, loops, nreg, nclose>>

\* id := nextCallbackID
RegRead(t) ==
  /\ tpc[t] = "read"
  /\ tloc' = [tloc EXCEPT ![t].id = nextCallbackID]
  /\ tpc' = [tpc EXCEPT ![t] = "store"]
  /\ UNCHANGED <<hostVars, regVars, dispVars, histVars, callbacksMu,
                 callbackLoopOnce, made, loops, nreg, nclose>>

\* nextCallbackID++; callbacks[id] = fn
RegStore(t) ==
  /\ tpc[t] = "store"
  /\ nextCallbackID' = U32Inc(nextCallbackID)
  /\ callbacks' = MapStore(callbacks, tloc[t].id, tloc[t].fn)
  /\ allocated' = Append(allocated,
       [id |-> tloc[t].id, fn |-> tloc[t].fn.name,
        c |-> NewCallbackResult(tloc[t].kind, tloc[t].flags, tloc[t].id)])
  /\ tpc' = [tpc EXCEPT ![t] = "unlock"]
  /\ UNCHANGED <<hostVars, dispVars, returned, removed, released, prior,
                 callbacksMu, callbackLoopOnce, tloc, made, loops, nreg, nclose>>

\* callbacksMu.Unlock(); return Callback{id, enqueueFn}: from NewCallback, or
\* from NewEventCallback with the event helper around the plain one
RegReturn(t) ==
  /\ tpc[t] = "unlock"
  /\ callbacksMu' = Free
  /\ made' = made \cup {NewCallbackResult(tloc[t].kind, tloc[t].flags, tloc[t].id)}
  /\ returned' = Append(returned, tloc[t].id)
  /\ tpc' = [tpc EXCEPT ![t] = "idle"]
  /\ tloc' = [tloc EXCEPT ![t] = Idle]
  /\ UNCHANGED <<hostVars, regVars, dispVars, removed, released, prior,
                 allocated, callbackLoopOnce, loops, nreg, nclose>>

\* c.Close() is entered, on a Callback value returned earlier or on the zero
\* Callback; callbacksMu.Lock()
CloseBegin(t, env) ==
  /\ CanStart(t, env)
  /\ nclose < env.maxClose
  /\ MutexFree(callbacksMu)
  /\ \E c \in made \cup {ZeroCallback} :
       tloc' = [tloc EXCEPT ![t] = [Idle EXCEPT !.id = c.id]]
  /\ callbacksMu' = Thread(t)
  /\ tpc' = [tpc EXCEPT ![t] = "delete"]
  /\ nclose' = nclose + 1
  /\ UNCHANGED <<hostVars, regVars, dispVars, histVars, callbackLoopOnce, made,
                 loops, nreg>>

\* delete(callbacks, c.id)
CloseDelete(t) ==
  /\ tpc[t] = "delete"
  /\ callbacks' = MapDelete(callbacks, tloc[t].id)
  /\ removed' = removed \cup ({tloc[t].id} \cap DOMAIN callbacks)
  /\ tpc' = [tpc EXCEPT ![t] = "cunlock"]
  /\ UNCHANGED <<hostVars, dispVars, nextCallbackID, returned, released, prior,
                 allocated, callbacksMu, callbackLoopOnce, tloc, made, loops, nreg, nclose>>

\* callbacksMu.Unlock(); return
CloseReturn(t) ==
  /\ tpc[t] = "cunlock"
  /\ callbacksMu' = Free
  /\ released' = released \cup ({tloc[t].id} \cap removed)
  /\ tpc' = [tpc EXCEPT ![t] = "idle"]
  /\ tloc' = [tloc EXCEPT ![t] = Idle]
  /\ UNCHANGED <<hostVars, regVars, dispVars, returned, removed, prior,
                 allocated, callbackLoopOnce, made, loops, nreg, nclose>>

\* ------------------------------------------------------------ the host
\* The trampolines the host may hold for the Callback value c: the one made
\* by the r-th store of the run, once its NewCallback has returned, and 0 for
\* the one made, and closed, before the run's first state.
Trampolines(c) ==
  {r \in DOMAIN allocated :
     allocated[r].c = c /\ \E i \in DOMAIN returned : returned[i] = allocated[r].id}
  \cup (IF prior # Zero /\ c = FirstCallback THEN {0} ELSE {})

\* Close has removed the id of trampoline r of c from callbacks
TrampolineClosed(c, r) == IF r = 0 THEN InPrior(c.id) ELSE c.id \in removed

\* JavaScript calls c.enqueueFn: the plain helper with some arguments, or the
\* event helper with a fresh event object. A JavaScript function runs to its
\* end before anything else runs.
Invoke(env) ==
  /\ ninv < env.maxInvoke
  /\ \E c \in made : \E r \in Trampolines(c) :
     \E args \in IF c.kind = "event" THEN {<<>>} ELSE env.argInputs :
       LET seq == ninv + 1
           ev == EventVal(seq)
           hs == [q |-> pendingCallbacks, sig |-> signal, log |-> <<>>]
           out == IF c.kind = "event"
                  THEN EventHelperRun(hs, EventHelperOps(c.pd, c.sp, c.sip),
                                      c.id, ev, seq, WasRemoved(c.id))
                  ELSE CallbackHelper(hs, c.id, args, seq, WasRemoved(c.id))
       IN /\ pendingCallbacks' = out.q
          /\ signal' = out.sig
          /\ events' = IF c.kind = "event"
                       THEN Append(events, [ev |-> ev, c |-> c, log |-> out.log])
                       ELSE events
          /\ given' = Append(given,
               [c |-> c, reg |-> r, closed |-> TrampolineClosed(c, r),
                args |-> IF c.kind = "event" THEN <<ev>> ELSE args])
  /\ ninv' = ninv + 1
  /\ pushed' = IF Len(pendingCallbacks') > Len(pendingCallbacks)
               THEN Append(pushed, pendingCallbacks'[Len(pendingCallbacks')].id)
               ELSE pushed
  /\ UNCHANGED <<regVars, dispVars, histVars, callbacksMu, callbackLoopOnce,
                 tpc, tloc, made, loops, nreg, nclose>>

\* --------------------------------------------------------- callbackLoop
\* sleepUntilCallback() returns once the callback promise has been resolved
DispSleep ==
  /\ dpc = "sleep"
  /\ signal
  /\ signal' = FALSE
  /\ slept' = TRUE
  /\ dpc' = "shift"
  /\ UNCHANGED <<regVars, histVars, pendingCallbacks, events, ninv, pushed,
                 given, callbacksMu,
                 callbackLoopOnce, tpc, tloc, made, cb, f, ok, popRel, rel,
                 calls, diag, loops, nreg, nclose>>

\* cb := pendingCallbacks.Call("shift"); if cb == Undefined { break }
DispShift ==
  /\ dpc = "shift"
  /\ IF pendingCallbacks = <<>>
     THEN /\ dpc' = "sleep"
          /\ UNCHANGED <<pendingCallbacks, cb, popRel>>
     ELSE /\ cb' = Shift(pendingCallbacks).rec
          /\ pendingCallbacks' = Shift(pendingCallbacks).rest
          /\ popRel' = WasRemoved(Shift(pendingCallbacks).rec.id)
          /\ dpc' = "lock"
  /\ UNCHANGED <<regVars, histVars, signal, events, ninv, pushed, given,
                 callbacksMu,
                 callbackLoopOnce, tpc, tloc, made, f, ok, rel, calls, diag,
                 slept, loops, nreg, nclose>>

\* id := uint32(cb.Get("id").Int()); callbacksMu.Lock()
DispLock ==
  /\ dpc = "lock"
  /\ MutexFree(callbacksMu)
  /\ callbacksMu' = Loop
  /\ dpc' = "lookup"
  /\ UNCHANGED <<hostVars, regVars, histVars, callbackLoopOnce, tpc, tloc, made,
                 cb, f, ok, popRel, rel, calls, diag, slept, loops, nreg, nclose>>

\* f, ok := callbacks[id]
DispLookup ==
  /\ dpc = "lookup"
  /\ f' = MapLookup(callbacks, cb.id).f
  /\ ok' = MapLookup(callbacks, cb.id).ok
  /\ rel' = WasRemoved(cb.id)
  /\ dpc' = "unlock"
  /\ UNCHANGED <<hostVars, regVars, histVars, callbacksMu, callbackLoopOnce, tpc,
                 tloc, made, cb, popRel, calls, diag, slept, loops, nreg, nclose>>

\* a callbackLoop that kept callbacksMu locked over the call of f(args)
DispUnlockKeepsLock ==
  /\ dpc = "unlock"
  /\ dpc' = IF ok THEN "call" ELSE "error"
  /\ UNCHANGED <<hostVars, regVars, histVars, callbacksMu, callbackLoopOnce, tpc,
                 tloc, made, cb, f, ok, popRel, rel, calls, diag, slept, loops,
                 nreg, nclose>>

\* callbacksMu.Unlock(); if !ok
DispUnlock ==
  /\ dpc = "unlock"
  /\ callbacksMu' = Free
  /\ dpc' = IF ok THEN "call" ELSE "error"
  /\ UNCHANGED <<hostVars, regVars, histVars, callbackLoopOnce, tpc, tloc, made,
                 cb, f, ok, popRel, rel, calls, diag, slept, loops, nreg, nclose>>

\* console.error and then break instead of continue: back to sleepUntilCallback
DispErrorBreaks ==
  /\ dpc = "error"
  /\ diag' = Append(diag,
       [seq |-> cb.seq, id |-> cb.id, pushRel |-> cb.pushRel, popRel |-> popRel,
        rel |-> rel, newWake |-> slept,
        behind |-> {pendingCallbacks[i].seq : i \in DOMAIN pendingCallbacks}])
  /\ slept' = FALSE
  /\ dpc' = "sleep"
  /\ UNCHANGED <<hostVars, regVars, histVars, callbacksMu, callbackLoopOnce, tpc,
                 tloc, made, cb, f, ok, popRel, rel, calls, loops, nreg, nclose>>

\* console.error("call to closed callback"); continue
DispError ==
  /\ dpc = "error"
  /\ diag' = Append(diag,
       [seq |-> cb.seq, id |-> cb.id, pushRel |-> cb.pushRel, popRel |-> popRel,
        rel |-> rel, newWake |-> slept,
        behind |-> {pendingCallbacks[i].seq : i \in DOMAIN pendingCallbacks}])
  /\ slept' = FALSE
  /\ dpc' = "shift"
  /\ UNCHANGED <<hostVars, regVars, histVars, callbacksMu, callbackLoopOnce, tpc,
                 tloc, made, cb, f, ok, popRel, rel, calls, loops, nreg, nclose>>

\* a callbackLoop that started f(args) and did not wait for it (go f(args))
DispCallNoWait ==
  /\ dpc = "call"
  /\ LET args == MakeArgs(cb.args)
     IN IF f.wrap /\ Len(args) = 0
        THEN /\ dpc' = "dead"
             /\ UNCHANGED calls
        ELSE /\ dpc' = "shift"
             /\ calls' = Append(calls,
                  [seq |-> cb.seq, id |-> cb.id, fn |-> f.name,
                   recv |-> IF f.wrap THEN <<args[1]>> ELSE args,
                   pushRel |-> cb.pushRel, popRel |-> popRel, rel |-> rel,
                   newWake |-> slept, done |-> FALSE])
  /\ slept' = FALSE
  /\ UNCHANGED <<hostVars, regVars, histVars, callbacksMu, callbackLoopOnce, tpc,
                 tloc, made, cb, f, ok, popRel, rel, diag, loops, nreg, nclose>>

\* args := the copy of cb.Get("args"); f(args) is entered. The wrapper that
\* NewEventCallback registered passes args[0] on to its fn, and panics on an
\* empty args.
DispCall ==
  /\ dpc = "call"
  /\ LET args == MakeArgs(cb.args)
     IN IF f.wrap /\ Len(args) = 0
        THEN /\ dpc' = "dead"
             /\ UNCHANGED calls
        ELSE /\ dpc' = "body"
             /\ calls' = Append(calls,
                  [seq |-> cb.seq, id |-> cb.id, fn |-> f.name,
                   recv |-> IF f.wrap THEN <<args[1]>> ELSE args,
                   pushRel |-> cb.pushRel, popRel |-> popRel, rel |-> rel,
                   newWake |-> slept, done |-> FALSE])
  /\ slept' = FALSE
  /\ UNCHANGED <<hostVars, regVars, histVars, callbacksMu, callbackLoopOnce, tpc,
                 tloc, made, cb, f, ok, popRel, rel, diag, loops, nreg, nclose>>

\* a callbackLoop that went back to sleepUntilCallback after every callback
BodyReturnSleeps ==
  /\ dpc = "body"
  /\ tpc[Dispatcher] = "idle"
  /\ calls' = [calls EXCEPT ![Len(calls)].done = TRUE]
  /\ dpc' = "sleep"
  /\ UNCHANGED <<hostVars, regVars, histVars, callbacksMu, callbackLoopOnce, tpc,
                 tloc, made, cb, f, ok, popRel, rel, diag, slept, loops, nreg,
                 nclose>>

\* f(args) returns
BodyReturn ==
  /\ dpc = "body"
  /\ tpc[Dispatcher] = "idle"
  /\ calls' = [calls EXCEPT ![Len(calls)].done = TRUE]
  /\ dpc' = "shift"
  /\ UNCHANGED <<hostVars, regVars, histVars, callbacksMu, callbackLoopOnce, tpc,
                 tloc, made, cb, f, ok, popRel, rel, diag, slept, loops, nreg,
                 nclose>>

\* a callbackLoop that recovered the panic of f(args) and went on
BodyPanicRecovered ==
  /\ dpc = "body"
  /\ tpc[Dispatcher] = "idle"
  /\ dpc' = "shift"
  /\ UNCHANGED <<hostVars, regVars, histVars, callbacksMu, callbackLoopOnce, tpc,
                 tloc, made, cb, f, ok, popRel, rel, calls, diag, slept, loops,
                 nreg, nclose>>

\* f(args) panics: nothing in callbackLoop recovers, the goroutine is gone
BodyPanic ==
  /\ dpc = "body"
  /\ tpc[Dispatcher] = "idle"
  /\ dpc' = "dead"
  /\ UNCHANGED <<hostVars, regVars, histVars, callbacksMu, callbackLoopOnce, tpc,
                 tloc, made, cb, f, ok, popRel, rel, calls, diag, slept, loops,
                 nreg, nclose>>

\* ------------------------------------------------------- specifications
ThreadStep(t, env) ==
  \/ NewCallbackBegin(t, env)
  \/ RegLock(t)
  \/ RegRead(t)
  \/ RegStore(t)
  \/ RegReturn(t)
  \/ CloseBegin(t, env)
  \/ CloseDelete(t)
  \/ CloseReturn(t)

DispStep ==
  \/ DispSleep
  \/ DispShift
  \/ DispLock
  \/ DispLookup
  \/ DispUnlock
  \/ DispError
  \/ DispCall
  \/ BodyReturn

Run(env) ==
  \/ \E t \in Threads : ThreadStep(t, env)
  \/ Invoke(env)
  \/ DispStep
  \/ BodyPanic

Next == Run(MainEnv)

Spec == Init /\ [][Next]_vars

\* Runs with event callbacks of every flag combination.
NextEvent == Run(EventEnv)

SpecEvent == Init /\ [][NextEvent]_vars

\* Runs in which the host passes argument lists of several lengths.
NextArgs == Run(ArgsEnv)

SpecArgs == Init /\ [][NextArgs]_vars

\* A long-lived process: 2^32 - 1 NewCallback calls have returned the ids
\* 1..2^32-1, every one of them was closed, and the last increment has wrapped
\* nextCallbackID to 0. The loop runs and sleeps, the queue is empty, and the
\* host still holds the trampoline of the closed callback 1.
InitWrapped ==
  /\ pendingCallbacks = <<>>
  /\ callbacksMu = Free
  /\ callbacks = <<>>
  /\ nextCallbackID = U32Inc(MaxU32)
  /\ callbackLoopOnce = TRUE
  /\ signal = FALSE
  /\ tpc = [t \in Threads |-> "idle"]
  /\ tloc = [t \in Threads |-> Idle]
  /\ made = {FirstCallback}
  /\ dpc = "sleep"
  /\ cb = NoRecord
  /\ f = NoFn
  /\ ok = FALSE
  /\ events = <<>>
  /\ loops = 1
  /\ nreg = 0
  /\ ninv = 0
  /\ nclose = 0
  /\ slept = FALSE
  /\ returned = <<>>
  /\ removed = {}
  /\ released = {}
  /\ prior = MaxU32
  /\ popRel = FALSE
  /\ rel = FALSE
  /\ pushed = <<>>
  /\ given = <<>>
  /\ allocated = <<>>
  /\ calls = <<>>
  /\ diag = <<>>

NextWrapped == Run(SmallEnv)

SpecWrapped == InitWrapped /\ [][NextWrapped]_vars

\* Progress: the Go scheduler runs every runnable goroutine, a caller that has
\* entered NewCallback or Close goes on to its end, and a callback body that
\* does not panic returns.
Continue(t) ==
  \/ RegLock(t)
  \/ RegRead(t)
  \/ RegStore(t)
  \/ RegReturn(t)
  \/ CloseDelete(t)
  \/ CloseReturn(t)

NextLive == Run(SmallEnv)

SpecLive ==
  /\ Init
  /\ [][NextLive]_vars
  /\ WF_vars(DispStep)
  /\ \A t \in Threads : WF_vars(Continue(t))

\* ================================================================ claims

\* C1: the registered functions are invoked in the order in which the
\* trampolines appended their records, whatever the handles and whenever the
\* loop was woken: of two delivered records the one appended first is called
\* first, and its call has returned when the other's starts.
C1_DeliveryInAppendOrder ==
  \A i, j \in DOMAIN calls :
    i < j => calls[i].seq < calls[j].seq /\ calls[i].done

\* two records of different handles, delivered in different wake cycles
C1_Witness ==
  \E i, j \in DOMAIN calls :
    i < j /\ calls[i].id # calls[j].id /\ calls[j].newWake

\* the sequence numbers of the records in a log or in the queue
SeqsOf(log) == {log[i].seq : i \in DOMAIN log}

\* the record callbackLoop has shifted and not yet called or reported
InFlight ==
  IF dpc \in {"lock", "lookup", "unlock", "call", "error"} THEN {cb.seq} ELSE {}

\* how many of the sets hold s
Holders(s, sets) == Cardinality({k \in DOMAIN sets : s \in sets[k]})

NoRepeats(log) == Cardinality(SeqsOf(log)) = Len(log)

\* C2 as stated: every appended record is in exactly one of three conditions,
\* pending, delivered or dropped, so appended = pending + delivered + dropped,
\* and no record is shifted twice.
C2_ThreeConditions ==
  /\ \A s \in 1..ninv :
       Holders(s, <<SeqsOf(pendingCallbacks), SeqsOf(calls), SeqsOf(diag)>>) = 1
  /\ ninv = Len(pendingCallbacks) + Len(calls) + Len(diag)
  /\ NoRepeats(pendingCallbacks) /\ NoRepeats(calls) /\ NoRepeats(diag)

\* C2 amended: every appended record is in exactly one of four conditions,
\* pending, shifted and being looked up by callbackLoop (at most one record),
\* delivered, or dropped, so appended = pending + in flight + delivered +
\* dropped, and no record is shifted twice.
C2_FourConditions ==
  /\ \A s \in 1..ninv :
       Holders(s, <<SeqsOf(pendingCallbacks), InFlight, SeqsOf(calls),
                    SeqsOf(diag)>>) = 1
  /\ ninv = Len(pendingCallbacks) + Cardinality(InFlight) + Len(calls) + Len(diag)
  /\ NoRepeats(pendingCallbacks) /\ NoRepeats(calls) /\ NoRepeats(diag)

\* one record delivered, one dropped, one in flight
C2_Witness == calls # <<>> /\ diag # <<>> /\ InFlight # {}

\* C3: no two NewCallback or NewEventCallback calls return the same id, over
\* the whole life of the process.
C3_HandlesUnique ==
  /\ \A i, j \in DOMAIN returned : i # j => returned[i] # returned[j]
  /\ \A i \in DOMAIN returned : ~InPrior(returned[i])

\* C4: one callbackLoop goroutine is started, by the first NewCallback to reach
\* callbackLoopOnce.Do, and never a second one.
C4_AtMostOneLoop ==
  /\ loops \in {0, 1}
  /\ loops = 1 <=> nreg >= 1
  /\ loops = 0 <=> dpc = "unstarted"

\* all callers are inside their first NewCallback at once, none has returned
C4_Witness ==
  /\ \A t \in Callers : tpc[t] \in {"lock", "read", "store", "unlock"}
  /\ returned = <<>>
  /\ loops = 1

\* C5: a record whose id is being closed while callbackLoop handles it is
\* either called, once, when the lookup came before the delete, or reported,
\* once, when the lookup came after it; it is never both, never twice, and
\* callbackLoop ends only by the panic of a callback body.
C5_ReleaseRace ==
  /\ \A i \in DOMAIN calls : ~calls[i].rel
  /\ \A i \in DOMAIN diag : diag[i].rel
  /\ SeqsOf(calls) \cap SeqsOf(diag) = {}
  /\ NoRepeats(calls) /\ NoRepeats(diag)
  /\ dpc = "dead" => calls # <<>> /\ ~calls[Len(calls)].done

\* a record shifted while its id was registered, and looked up after a Close
\* removed the id, was reported
C5_WitnessDropped == \E i \in DOMAIN diag : ~diag[i].popRel /\ diag[i].rel

\* C6: once Close has removed an id, every later lookup of that id by
\* callbackLoop finds nothing, whatever is registered afterwards.
C6_ReleasedNeverResolves == dpc = "unlock" /\ rel => ~ok

\* the records of id among the entries of a log
Of(id, log) == {i \in DOMAIN log : log[i].id = id}

\* a record of id was looked up before id was removed
EarlyLookup(id) ==
  \/ \E i \in Of(id, calls) : ~calls[i].rel
  \/ \E i \in Of(id, diag) : ~diag[i].rel
  \/ dpc \in {"unlock", "call", "error"} /\ cb.id = id /\ ~rel

\* every record of id was appended through a trampoline of a callback whose
\* Close has returned
ByReleased(id) ==
  \A s \in DOMAIN given :
    given[s].c.id = id =>
      given[s].reg = 0 \/ allocated[given[s].reg].id \in released

\* C7: when the records of id were appended through the trampoline of a
\* callback whose Close(id) has returned before callbackLoop looks up any of
\* them, no function is called for id and every record of id that
\* callbackLoop handles is reported: k records appended give k console.error
\* calls once the loop has handled them all.
C7_ReleasedBeforeDispatch ==
  \A id \in {pushed[i] : i \in DOMAIN pushed} :
    WasReleased(id) /\ ~EarlyLookup(id) /\ ByReleased(id) =>
      /\ Of(id, calls) = {}
      /\ Cardinality(Of(id, diag)) + Cardinality(Of(id, pendingCallbacks))
           + (IF InFlight # {} /\ cb.id = id THEN 1 ELSE 0)
         = Cardinality({i \in DOMAIN pushed : pushed[i] = id})

\* the positions of op in an event's log
At(log, op) == {i \in DOMAIN log : log[i] = op}

\* C8: each invocation of an event callback's trampoline applies to its event
\* exactly the effects whose flag was given, each once, in the order
\* preventDefault, stopPropagation, stopImmediatePropagation, and queues the
\* record after all of them; the body that receives the event runs later.
C8_EffectsBeforeQueuing ==
  /\ \A k \in DOMAIN events :
       LET e == events[k]
           pd == At(e.log, "preventDefault")
           sp == At(e.log, "stopPropagation")
           sip == At(e.log, "stopImmediatePropagation")
           fn == At(e.log, "fn")
       IN /\ Cardinality(pd) = (IF e.c.pd THEN 1 ELSE 0)
          /\ Cardinality(sp) = (IF e.c.sp THEN 1 ELSE 0)
          /\ Cardinality(sip) = (IF e.c.sip THEN 1 ELSE 0)
          /\ Cardinality(fn) = 1
          /\ \A i \in pd : \A j \in sp \cup sip \cup fn : i < j
          /\ \A i \in sp : \A j \in sip \cup fn : i < j
          /\ \A i \in sip : \A j \in fn : i < j
  /\ \A i \in DOMAIN calls :
       calls[i].recv # <<>> /\ calls[i].recv[1][1] = "event" =>
         \E k \in DOMAIN events :
           events[k].ev = calls[i].recv[1] /\ At(events[k].log, "fn") # {}

\* a body has run with an event to which all three effects were applied
C8_Witness ==
  \E i \in DOMAIN calls : \E k \in DOMAIN events :
    /\ events[k].ev = calls[i].recv[1]
    /\ events[k].log =
         <<"preventDefault", "stopPropagation", "stopImmediatePropagation", "fn">>

\* C9: Close of an id that is not in callbacks (already closed, or never
\* registered) leaves callbacks and nextCallbackID as they were; Close of a
\* registered id removes that entry and nothing else.
C9_CloseIdempotent ==
  [][\A t \in Threads :
       tpc[t] = "delete" /\ tpc'[t] = "cunlock" =>
         /\ nextCallbackID' = nextCallbackID
         /\ tloc[t].id \notin DOMAIN callbacks => callbacks' = callbacks
         /\ DOMAIN callbacks' = DOMAIN callbacks \ {tloc[t].id}
         /\ \A id \in DOMAIN callbacks' : callbacks'[id] = callbacks[id]]_vars

\* a second Close of a registered id has run its delete after the first one
\* returned
C9_Witness ==
  \E t \in Threads : tpc[t] = "cunlock" /\ tloc[t].id \in released

\* a record is settled once its function was called or console.error reported it
Settled(s) == s \in SeqsOf(calls) \cup SeqsOf(diag)

\* C10: every record appended to pendingCallbacks is eventually shifted and
\* then called or reported, unless a callback body has panicked: the loop
\* never sleeps for ever on a queue that holds a record.
C10_EventuallyConsumed ==
  \A s \in 1..FewInvoke :
    (s \in SeqsOf(pendingCallbacks)) ~> (Settled(s) \/ dpc = "dead")

\* a record was appended while the loop slept after an earlier drain, and
\* the promise is resolved
C10_Witness ==
  /\ dpc = "sleep"
  /\ pendingCallbacks # <<>>
  /\ calls # <<>> \/ diag # <<>>
  /\ signal

\* the records that were in the queue behind a reported record stay in the
\* same drain pass: none of them is the first record after a new wake, and one
\* that is reported too had its own id removed
SameDrainPass ==
  \A k \in DOMAIN diag : \A s \in diag[k].behind :
    /\ \A i \in DOMAIN calls : calls[i].seq = s => ~calls[i].newWake
    /\ \A i \in DOMAIN diag : diag[i].seq = s => ~diag[i].newWake /\ diag[i].rel

\* C11: a record whose id is not in callbacks is reported with console.error
\* and callbackLoop goes on with the next record of the same drain pass: the
\* loop does not end on it, and every record queued behind it is shifted and
\* then called, or reported when its own id was removed.
C11_UnknownHandleSkipped ==
  /\ [](SameDrainPass /\ (dpc = "dead" => calls # <<>>))
  /\ \A s \in 1..FewInvoke :
       (dpc = "error" /\ s \in SeqsOf(pendingCallbacks))
         ~> (Settled(s) \/ dpc = "dead")

\* a record queued behind a reported one was called, its body has returned,
\* and the loop sleeps again
C11_Witness ==
  /\ dpc = "sleep"
  /\ \E k \in DOMAIN diag : \E i \in DOMAIN calls :
       calls[i].seq \in diag[k].behind /\ calls[i].done

\* q is pendingCallbacks with records appended: nothing was shifted
Extends(q, old) == Len(q) >= Len(old) /\ SubSeq(q, 1, Len(old)) = old

\* C12: a panic of a callback body is not recovered by callbackLoop: a body
\* that ends without returning ends the loop, and once the loop has ended no
\* record is shifted, called or reported any more, neither the records queued
\* behind the failing one nor the records appended later.
C12_BodyFailureFatal ==
  [][/\ dpc = "body" /\ dpc' # "body" /\ calls' = calls => dpc' = "dead"
     /\ dpc = "dead" =>
          /\ dpc' = "dead"
          /\ calls' = calls /\ diag' = diag /\ cb' = cb
          /\ Extends(pendingCallbacks', pendingCallbacks)]_vars

\* the loop has ended in a callback body, records are left in the queue and
\* the promise is resolved for the last of them
C12_Witness ==
  /\ dpc = "dead"
  /\ Len(pendingCallbacks) >= 2
  /\ signal
  /\ calls # <<>> /\ ~calls[Len(calls)].done

\* callbackLoop holds callbacksMu only around its lookup, and a caller only
\* inside the locked part of NewCallback or Close
LockHeldOnlyInside ==
  /\ callbacksMu = Loop <=> dpc \in {"lookup", "unlock"}
  /\ \A t \in Threads :
       callbacksMu = Thread(t) <=>
         tpc[t] \in {"read", "store", "unlock", "delete", "cunlock"}

\* C13: callbacksMu is not held by callbackLoop while a callback body runs, so
\* a body that calls NewCallback or Close, on its own id or another, gets the
\* mutex and returns: whoever holds the mutex releases it, and every caller
\* waiting in callbacksMu.Lock gets through, in every interleaving with the
\* other callers.
C13_NoLockAcrossBody ==
  /\ [](LockHeldOnlyInside /\ (dpc \in {"call", "body"} => callbacksMu # Loop))
  /\ (callbacksMu # Free) ~> (callbacksMu = Free)
  /\ \A t \in Threads : (tpc[t] # "idle") ~> (tpc[t] = "idle")

\* the body of a callback is inside Close of its own id, holding the mutex,
\* while another caller waits in NewCallback for the mutex
C13_Witness ==
  /\ dpc = "body"
  /\ tpc[Dispatcher] = "delete" /\ tloc[Dispatcher].id = cb.id
  /\ \E t \in Callers : tpc[t] = "lock"

\* the callback bodies that have been entered and have not returned
Executing == {i \in DOMAIN calls : ~calls[i].done}

\* C14: at most one callback body is executing at any time; callbackLoop
\* shifts the next record only after the body it called has returned, so
\* while a body has not returned no record is shifted, called or reported.
C14_SerialBodies ==
  /\ [](/\ Cardinality(Executing) <= 1
        /\ Executing # {} => Executing = {Len(calls)} /\ dpc \in {"body", "dead"}
        /\ dpc = "body" => Executing = {Len(calls)} /\ calls[Len(calls)].seq = cb.seq)
  /\ [][dpc = "body" /\ dpc' = "body" =>
          /\ calls' = calls /\ diag' = diag /\ cb' = cb
          /\ Extends(pendingCallbacks', pendingCallbacks)]_vars

\* a body is executing, has itself called NewCallback, and two records wait
\* in the queue behind the one it is handling
C14_Witness ==
  /\ dpc = "body"
  /\ tpc[Dispatcher] = "store"
  /\ Len(pendingCallbacks) >= 2
  /\ Len(calls) >= 1

\* C15: a registered function is never run inside the host's call of a
\* trampoline: one invocation of a trampoline, plain or event, only appends
\* one record for its id at the back of the queue and resolves the promise
\* (the event helper after its effects on the event), and every call of a
\* registered function is a step of callbackLoop for the record it shifted
\* before.
C15_BodiesOnlyOnLoop ==
  [][/\ ninv' # ninv =>
          /\ calls' = calls /\ diag' = diag /\ dpc' = dpc /\ cb' = cb
          /\ Len(pendingCallbacks') = Len(pendingCallbacks) + 1
          /\ Extends(pendingCallbacks', pendingCallbacks)
          /\ pendingCallbacks'[Len(pendingCallbacks')].id = given'[Len(given')].c.id
          /\ pendingCallbacks'[Len(pendingCallbacks')].args = given'[Len(given')].args
          /\ signal'
          /\ given'[Len(given')].c.kind = "event" =>
               /\ Len(events') = Len(events) + 1
               /\ events'[Len(events')].log # <<>>
               /\ At(events'[Len(events')].log, "fn") = {Len(events'[Len(events')].log)}
     /\ calls' # calls /\ Len(calls') > Len(calls) =>
          /\ dpc = "call" /\ dpc' = "body"
          /\ ninv' = ninv /\ pendingCallbacks' = pendingCallbacks
          /\ Len(calls') = Len(calls) + 1
          /\ calls'[Len(calls')].seq = cb.seq
          /\ cb.seq \notin SeqsOf(pendingCallbacks)]_vars

\* trampolines of a plain and of an event callback have been invoked, their
\* records wait in the queue, and no function has been called yet
C15_Witness ==
  /\ calls = <<>> /\ diag = <<>>
  /\ events # <<>>
  /\ \E i, j \in DOMAIN given : given[i].c.kind = "plain" /\ given[j].c.kind = "event"
  /\ Len(pendingCallbacks) = Len(given)

\* C16: a delivered record is delivered faithfully: the function called is
\* the one callbacks held under the record's id at the lookup, which is the
\* function given to the NewCallback call that was handed that id, and it
\* receives the arguments the host passed to the trampoline, as many and in
\* the same order; the function of an event callback receives the event its
\* helper applied the effects to.
C16_DeliveryFidelity ==
  /\ [](\A i \in DOMAIN calls :
          LET c == calls[i]
              g == given[c.seq]
          IN /\ c.id = g.c.id
             /\ c.recv = g.args
             /\ \E k \in DOMAIN allocated :
                  allocated[k].id = c.id /\ allocated[k].fn = c.fn
             /\ g.c.kind = "event" =>
                  \E k \in DOMAIN events :
                    /\ events[k].c = g.c
                    /\ <<events[k].ev>> = c.recv
                    /\ At(events[k].log, "fn") # {})
  /\ [][dpc = "lookup" /\ dpc' = "unlock" /\ cb.id \in DOMAIN callbacks =>
          ok' /\ f' = callbacks[cb.id]]_vars

\* a function was called with an argument list of the greatest length, and
\* the function of an event callback with its event
C16_Witness ==
  \E i, j \in DOMAIN calls :
    /\ Len(calls[i].recv) = ManyArgs
    /\ given[calls[j].seq].c.kind = "event"
    /\ calls[i].fn # calls[j].fn

\* the ids NewCallback has returned
Returned == {returned[i] : i \in DOMAIN returned}

\* C17: ids are handed out in increasing order from 1: the first NewCallback
\* of the process returns 1, every NewCallback returns an id greater than
\* every id handed out before it, and 0 is never returned, however many
\* NewCallback calls the process makes, nextCallbackID being a uint32.
C17_HandlesIncrease ==
  /\ prior = Zero /\ allocated # <<>> /\ allocated[1].id \in Returned =>
       allocated[1].id = One
  /\ \A j \in DOMAIN allocated :
       allocated[j].id \in Returned =>
         /\ allocated[j].id # Zero
         /\ U32Less(prior, allocated[j].id)
         /\ \A i \in 1..(j - 1) : U32Less(allocated[i].id, allocated[j].id)

\* C18: one wake drains the whole queue: once sleepUntilCallback has returned,
\* callbackLoop shifts until a shift finds the queue empty, and only then
\* calls sleepUntilCallback again; so the loop never sleeps on a record
\* without the promise being resolved for it, and records appended before the
\* loop ran are all called, in order, after a single wake.
C18_OneWakeDrains ==
  /\ [](dpc = "sleep" /\ pendingCallbacks # <<>> => signal)
  /\ [][/\ dpc' = "sleep" /\ dpc # "sleep" =>
             dpc = "unstarted" \/ (dpc = "shift" /\ pendingCallbacks = <<>>)
        /\ dpc = "sleep" /\ dpc' # "sleep" => signal /\ dpc' = "shift"
        /\ dpc = "shift" /\ pendingCallbacks # <<>> /\ dpc' # "shift" =>
             dpc' = "lock" /\ cb' = Head(pendingCallbacks)]_vars

\* MaxInvoke records of one callback, all appended before sleepUntilCallback
\* returned for the only time, were called in append order, and the loop
\* sleeps again on the empty queue
C18_Witness ==
  /\ dpc = "sleep" /\ pendingCallbacks = <<>> /\ ~signal /\ ~slept
  /\ Len(calls) = MaxInvoke /\ diag = <<>>
  /\ \A i \in DOMAIN calls :
       /\ calls[i].seq = i /\ calls[i].id = calls[1].id /\ calls[i].done
       /\ calls[i].newWake <=> i = 1

\* what NewCallback and Close must leave alone: the queue, the promise, the
\* events, the call and the console.error logs, and the record in the loop
OutsideRegistry == <<pendingCallbacks, signal, events, calls, diag, cb>>

\* C19: NewCallback, NewEventCallback and Close call no callback and leave
\* the queue alone; Close(c) changes nothing but the presence of the entry of
\* c.id (the other entries and nextCallbackID stay, and so do the records of
\* c.id in the queue); NewCallback changes only nextCallbackID, by one, and
\* the entry of the id it hands out.
C19_RegistryFrame ==
  [][\A t \in Threads :
       /\ tpc'[t] # tpc[t] =>
            /\ UNCHANGED OutsideRegistry
            /\ dpc' = dpc \/ (tpc[t] = "idle" /\ dpc = "unstarted" /\ dpc' = "sleep")
       /\ tpc'[t] # tpc[t] /\ tpc[t] \notin {"store", "delete"} =>
            UNCHANGED <<callbacks, nextCallbackID>>
       /\ tpc[t] = "delete" /\ tpc'[t] = "cunlock" =>
            /\ nextCallbackID' = nextCallbackID
            /\ DOMAIN callbacks' = DOMAIN callbacks \ {tloc[t].id}
            /\ \A id \in DOMAIN callbacks' : callbacks'[id] = callbacks[id]
       /\ tpc[t] = "store" /\ tpc'[t] = "unlock" =>
            /\ nextCallbackID = tloc[t].id
            /\ nextCallbackID' = U32Inc(tloc[t].id)
            /\ DOMAIN callbacks' = DOMAIN callbacks \cup {tloc[t].id}
            /\ callbacks'[tloc[t].id] = tloc[t].fn
            /\ \A id \in DOMAIN callbacks \ {tloc[t].id} :
                 callbacks'[id] = callbacks[id]]_vars

\* a Close has deleted the entry of an id that has a record in the queue,
\* while another caller waits for the mutex in NewCallback
C19_Witness ==
  \E t, u \in Threads :
    /\ tpc[t] = "cunlock" /\ tloc[t].id \in removed
    /\ \E i \in DOMAIN pendingCallbacks : pendingCallbacks[i].id = tloc[t].id
    /\ tpc[u] = "lock"

\* C20: the trampoline of a closed callback still works: invoked after
\* Close has removed its id, it appends one record and resolves the promise
\* as before; every such record is reported by console.error once and no
\* function is ever called for it; and the helper of an event callback, whose
\* only id is the one its Close removes, still applies its flagged effects to
\* the event of every invocation.
C20_TrampolineOutlivesHandle ==
  /\ \A i \in DOMAIN calls : ~given[calls[i].seq].closed
  /\ NoRepeats(diag)
  /\ \A s \in 1..ninv :
       Holders(s, <<SeqsOf(pendingCallbacks), InFlight, SeqsOf(calls),
                    SeqsOf(diag)>>) = 1
  /\ \A k \in DOMAIN events :
       events[k].log = EventHelperOps(events[k].c.pd, events[k].c.sp, events[k].c.sip)

====
